---------------------------- MODULE Spec2Model ----------------------------
(***************************************************************************)
(* A model of the country/population/threatened-species program:           *)
(*   user_csv.py        read_csv, write_csv                                *)
(*   design_project.py  merge_data, calculate_population_change,           *)
(*                      calculate_species_statistics, main                 *)
(*                                                                         *)
(* Text is a sequence of one-character strings.  The element "sup2" stands *)
(* for the single character U+00B2 (SUPERSCRIPT TWO), which str.isdigit    *)
(* accepts and float() rejects.  A Python float is modelled as an exact    *)
(* rational n/d in lowest terms (d > 0); float rounding is not modelled.   *)
(***************************************************************************)
EXTENDS Integers, Sequences, FiniteSets, TLC

(***************************************************************************)
(* Python values and exceptions                                            *)
(***************************************************************************)
PyStr(s) == [t |-> "str", s |-> s]
PyInt(v) == [t |-> "int", n |-> v, d |-> 1]
NaN == [t |-> "nan"]

RECURSIVE Gcd(_, _)
Gcd(a, b) == IF b = 0 THEN a ELSE Gcd(b, a % b)

Abs(a) == IF a < 0 THEN -a ELSE a

\* the float n/d (d # 0), in lowest terms with a positive denominator
PyFloat(n, d) ==
    LET g == Gcd(Abs(n), Abs(d))
        sg == IF d < 0 THEN -1 ELSE 1
    IN  [t |-> "float", n |-> sg * (n \div g), d |-> sg * (d \div g)]

IsNum(v) == v.t \in {"float", "int"}

\* Python's == on two values: numbers compare by value, a str only equals a str
PyEq(a, b) ==
    IF IsNum(a) /\ IsNum(b) THEN a.n * b.d = b.n * a.d
    ELSE a.t = "str" /\ b.t = "str" /\ a.s = b.s

Ok(v) == [err |-> "none", val |-> v]
Raise(e) == [err |-> e, val |-> NaN]

(***************************************************************************)
(* str methods used by read_csv                                            *)
(***************************************************************************)
AsciiDigits == {"0", "1", "2", "3", "4", "5", "6", "7", "8", "9"}

DigitVal(c) ==
    CASE c = "0" -> 0 [] c = "1" -> 1 [] c = "2" -> 2 [] c = "3" -> 3
      [] c = "4" -> 4 [] c = "5" -> 5 [] c = "6" -> 6 [] c = "7" -> 7
      [] c = "8" -> 8 [] c = "9" -> 9

DigitChar(k) ==
    CASE k = 0 -> "0" [] k = 1 -> "1" [] k = 2 -> "2" [] k = 3 -> "3"
      [] k = 4 -> "4" [] k = 5 -> "5" [] k = 6 -> "6" [] k = 7 -> "7"
      [] k = 8 -> "8" [] k = 9 -> "9"

Whitespace == {" ", "\n"}

\* str.isdigit: non-empty and every character is a digit character; the
\* digit characters include superscript digits such as U+00B2
isdigit(s) == Len(s) > 0 /\ \A i \in 1..Len(s) : s[i] \in AsciiDigits \cup {"sup2"}

RECURSIVE lstrip(_)
lstrip(s) == IF s # <<>> /\ Head(s) \in Whitespace THEN lstrip(Tail(s)) ELSE s

RECURSIVE rstrip(_)
rstrip(s) ==
    IF s # <<>> /\ s[Len(s)] \in Whitespace THEN rstrip(SubSeq(s, 1, Len(s) - 1)) ELSE s

strip(s) == rstrip(lstrip(s))

\* s.replace('.', '', 1): the first '.' removed
RECURSIVE replace_dot_once(_)
replace_dot_once(s) ==
    IF s = <<>> THEN <<>>
    ELSE IF Head(s) = "." THEN Tail(s)
    ELSE <<Head(s)>> \o replace_dot_once(Tail(s))

\* s.split(sep): the fields between the separators, at least one field
RECURSIVE split(_, _)
split(s, sep) ==
    IF \A i \in 1..Len(s) : s[i] # sep THEN <<s>>
    ELSE LET i == CHOOSE i \in 1..Len(s) : s[i] = sep /\ \A j \in 1..(i - 1) : s[j] # sep
         IN  <<SubSeq(s, 1, i - 1)>> \o split(SubSeq(s, i + 1, Len(s)), sep)

\* sep.join(parts)
RECURSIVE join(_, _)
join(parts, sep) ==
    IF parts = <<>> THEN <<>>
    ELSE IF Len(parts) = 1 THEN parts[1]
    ELSE parts[1] \o <<sep>> \o join(Tail(parts), sep)

\* file.readlines(): the lines of a text, each keeping its "\n"
RECURSIVE readlines(_)
readlines(text) ==
    IF text = <<>> THEN <<>>
    ELSE IF \A i \in 1..Len(text) : text[i] # "\n" THEN <<text>>
    ELSE LET i == CHOOSE i \in 1..Len(text) :
                      text[i] = "\n" /\ \A j \in 1..(i - 1) : text[j] # "\n"
         IN  <<SubSeq(text, 1, i)>> \o readlines(SubSeq(text, i + 1, Len(text)))

(***************************************************************************)
(* float(), int() and str() on the texts and numbers of the model          *)
(***************************************************************************)
RECURSIVE Pow10(_)
Pow10(k) == IF k = 0 THEN 1 ELSE 10 * Pow10(k - 1)

\* the value of a string of ASCII digits, read in base ten
RECURSIVE DigitsVal(_)
DigitsVal(s) ==
    IF s = <<>> THEN 0 ELSE 10 * DigitsVal(SubSeq(s, 1, Len(s) - 1)) + DigitVal(s[Len(s)])

AllAscii(s) == \A i \in 1..Len(s) : s[i] \in AsciiDigits

Unsigned(s) == IF s # <<>> /\ Head(s) \in {"-", "+"} THEN Tail(s) ELSE s

Sign(s) == IF s # <<>> /\ Head(s) = "-" THEN -1 ELSE 1

\* float(x) for a str x: surrounding whitespace and one sign are allowed,
\* then ASCII digits with at most one '.' and at least one digit
float_str(x) ==
    LET u == Unsigned(strip(x))
        parts == split(u, ".")
        ip == parts[1]
        fp == IF Len(parts) = 2 THEN parts[2] ELSE <<>>
    IN  IF Len(parts) <= 2 /\ AllAscii(ip) /\ AllAscii(fp) /\ Len(ip) + Len(fp) > 0
        THEN Ok(PyFloat(Sign(strip(x)) * DigitsVal(ip \o fp), Pow10(Len(fp))))
        ELSE Raise("ValueError")

\* float(v)
float(v) == IF v.t = "str" THEN float_str(v.s) ELSE Ok(PyFloat(v.n, v.d))

\* int(x) for a str x: surrounding whitespace and one sign, then ASCII digits
int_str(x) ==
    LET u == Unsigned(strip(x))
    IN  IF u # <<>> /\ AllAscii(u) THEN Ok(PyInt(Sign(strip(x)) * DigitsVal(u)))
        ELSE Raise("ValueError")

\* int(v): a float is truncated towards zero
int(v) ==
    IF v.t = "str" THEN int_str(v.s)
    ELSE Ok(PyInt(IF v.n < 0 THEN -((-v.n) \div v.d) ELSE v.n \div v.d))

\* the decimal digits of a natural number, most significant first
RECURSIVE NatStr(_)
NatStr(k) == IF k < 10 THEN <<DigitChar(k)>> ELSE NatStr(k \div 10) \o <<DigitChar(k % 10)>>

\* the number of fractional decimal digits of n/d (a terminating decimal)
RECURSIVE FracDigits(_, _)
FracDigits(n, d) == IF n % d = 0 THEN 0 ELSE 1 + FracDigits(10 * n, d)

\* k digits of the natural number m, zero-padded on the left
RECURSIVE PadDigits(_, _)
PadDigits(m, k) == IF k = 0 THEN <<>> ELSE PadDigits(m \div 10, k - 1) \o <<DigitChar(m % 10)>>

RECURSIVE StripTrailingZeros(_)
StripTrailingZeros(s) ==
    IF s # <<>> /\ s[Len(s)] = "0" THEN StripTrailingZeros(SubSeq(s, 1, Len(s) - 1)) ELSE s

\* repr of a float (float.__repr__): fixed notation when the decimal exponent
\* is in -4..15, otherwise scientific notation with a two-digit exponent
float_repr(v) ==
    LET a == Abs(v.n)
        k == FracDigits(a, v.d)
        ip == a \div v.d
        fr == (a * Pow10(k)) \div v.d - ip * Pow10(k)
        sg == IF v.n < 0 THEN <<"-">> ELSE <<>>
        sig == StripTrailingZeros(NatStr((a * Pow10(k)) \div v.d))
        e == IF ip > 0 THEN Len(NatStr(ip)) - 1
             ELSE IF fr = 0 THEN 0
             ELSE Len(NatStr(fr)) - k - 1
        mant == IF Len(sig) = 1 THEN sig ELSE <<sig[1], ".">> \o SubSeq(sig, 2, Len(sig))
        ex == IF Abs(e) < 10 THEN <<"0">> \o NatStr(Abs(e)) ELSE NatStr(Abs(e))
    IN  IF e < -4 THEN sg \o mant \o <<"e", "-">> \o ex
        ELSE IF e >= 16 THEN sg \o mant \o <<"e", "+">> \o ex
        ELSE sg \o NatStr(ip) \o <<".">> \o (IF k = 0 THEN <<"0">> ELSE PadDigits(fr, k))

\* str(v) as write_csv's map(str, row) applies it
str(v) ==
    CASE v.t = "str" -> v.s
      [] v.t = "int" -> (IF v.n < 0 THEN <<"-">> ELSE <<>>) \o NatStr(Abs(v.n))
      [] v.t = "float" -> float_repr(v)
      [] v.t = "nan" -> <<"n", "a", "n">>

(***************************************************************************)
(* user_csv.py                                                             *)
(***************************************************************************)
\* one element of read_csv's row comprehension
parse_value(value) ==
    IF isdigit(replace_dot_once(strip(value))) THEN float_str(value) ELSE Ok(PyStr(strip(value)))

\* the row of one line: the first conversion that raises ends the call
parse_row(line) ==
    LET vals == split(line, ",")
        res == [i \in 1..Len(vals) |-> parse_value(vals[i])]
    IN  IF \E i \in 1..Len(vals) : res[i].err # "none"
        THEN Raise("ValueError")
        ELSE Ok([i \in 1..Len(vals) |-> res[i].val])

\* read_csv(filename, include_headers) on a file holding `text`; NoFile is a
\* name that open() does not find
NoFile == <<"NoFile">>

read_csv(text, include_headers) ==
    IF text = NoFile THEN Raise("FileNotFoundError")
    ELSE LET lines == readlines(text)
             rows == [i \in 1..Len(lines) |-> parse_row(lines[i])]
         IN  IF \E i \in 1..Len(lines) : rows[i].err # "none"
             THEN Raise("ValueError")
             ELSE Ok([i \in 1..(IF include_headers \/ Len(lines) = 0
                                THEN Len(lines) ELSE Len(lines) - 1) |->
                        rows[IF include_headers THEN i ELSE i + 1].val])

RECURSIVE write_lines(_)
write_lines(data) ==
    IF data = <<>> THEN <<>>
    ELSE join([i \in 1..Len(data[1]) |-> str(data[1][i])], ",") \o <<"\n">>
         \o write_lines(Tail(data))

\* write_csv(filename, data, overwrite): the file's text afterwards
write_csv(old, data, overwrite) ==
    (IF overwrite \/ old = NoFile THEN <<>> ELSE old) \o write_lines(data)

(***************************************************************************)
(* float arithmetic and the insertion-ordered dict                         *)
(***************************************************************************)
Add(a, b) == PyFloat(a.n * b.d + b.n * a.d, a.d * b.d)

Sub(a, b) == PyFloat(a.n * b.d - b.n * a.d, a.d * b.d)

\* a / b on Python numbers: a zero divisor raises
Div(a, b) == IF b.n = 0 THEN Raise("ZeroDivisionError") ELSE Ok(PyFloat(a.n * b.d, a.d * b.n))

RECURSIVE SumSeq(_)
SumSeq(xs) == IF xs = <<>> THEN PyFloat(0, 1) ELSE Add(xs[1], SumSeq(Tail(xs)))

\* the builtin sum over a list of int
sum(xs) == PyInt(SumSeq(xs).n)

\* np.mean: nan (with a warning, no exception) on an empty list
mean(xs) == IF xs = <<>> THEN NaN ELSE PyFloat(SumSeq(xs).n, SumSeq(xs).d * Len(xs))

\* a dict is the sequence of its items [k, v] in insertion order, keys unique
has_key(dict, k) == \E i \in 1..Len(dict) : dict[i].k = k

get(dict, k) == dict[CHOOSE i \in 1..Len(dict) : dict[i].k = k].v

keys(dict) == [i \in 1..Len(dict) |-> dict[i].k]

\* dict[k] = v: an existing key keeps its position and takes the new value
set_item(dict, k, v) ==
    IF has_key(dict, k)
    THEN [i \in 1..Len(dict) |-> IF dict[i].k = k THEN [k |-> k, v |-> v] ELSE dict[i]]
    ELSE Append(dict, [k |-> k, v |-> v])

\* {row[0]: row[1:] for row in rows[1:]}, rows taken in order
RECURSIVE dict_from(_, _)
dict_from(dict, rows) ==
    IF rows = <<>> THEN dict
    ELSE dict_from(set_item(dict, rows[1][1], Tail(rows[1])), Tail(rows))

to_dict(data) == dict_from(<<>>, IF data = <<>> THEN <<>> ELSE Tail(data))

(***************************************************************************)
(* design_project.py: merge_data                                           *)
(***************************************************************************)
\* list(map(f, xs)) for f in {float, int}: the first element that raises ends it
map_float(xs) ==
    IF \E i \in 1..Len(xs) : float(xs[i]).err # "none" THEN Raise("ValueError")
    ELSE Ok([i \in 1..Len(xs) |-> float(xs[i]).val])

map_int(xs) ==
    IF \E i \in 1..Len(xs) : int(xs[i]).err # "none" THEN Raise("ValueError")
    ELSE Ok([i \in 1..Len(xs) |-> int(xs[i]).val])

\* the dict display of lines 29-35, its items evaluated in order
merged_record(c, p, sp) ==
    IF Len(c) < 3 THEN Raise("IndexError")
    ELSE IF float(c[3]).err # "none" THEN Raise("ValueError")
    ELSE IF map_float(p).err # "none" THEN Raise("ValueError")
    ELSE IF map_int(sp).err # "none" THEN Raise("ValueError")
    ELSE Ok([region |-> c[1], sub_region |-> c[2], area |-> float(c[3]).val,
             population |-> map_float(p).val, species |-> map_int(sp).val])

\* merge_loop as an outer join: a country missing from one series file is kept,
\* with an empty series
RECURSIVE merge_loop_outer(_, _, _, _, _)
merge_loop_outer(merged, i, country_dict, population_dict, species_dict) ==
    IF i > Len(country_dict) THEN Ok(merged)
    ELSE LET country == country_dict[i].k
         IN  IF has_key(population_dict, country) \/ has_key(species_dict, country)
             THEN LET r == merged_record(
                             country_dict[i].v,
                             IF has_key(population_dict, country)
                             THEN get(population_dict, country) ELSE <<>>,
                             IF has_key(species_dict, country)
                             THEN get(species_dict, country) ELSE <<>>)
                  IN  IF r.err # "none" THEN Raise(r.err)
                      ELSE merge_loop_outer(set_item(merged, country, r.val), i + 1,
                                            country_dict, population_dict, species_dict)
             ELSE merge_loop_outer(merged, i + 1, country_dict, population_dict,
                                   species_dict)

\* merge_loop with the record built under try/except: a country whose fields
\* do not convert is left out
RECURSIVE merge_loop_skip(_, _, _, _, _)
merge_loop_skip(merged, i, country_dict, population_dict, species_dict) ==
    IF i > Len(country_dict) THEN Ok(merged)
    ELSE LET country == country_dict[i].k
         IN  IF has_key(population_dict, country) /\ has_key(species_dict, country)
             THEN LET r == merged_record(country_dict[i].v, get(population_dict, country),
                                         get(species_dict, country))
                  IN  merge_loop_skip(IF r.err # "none" THEN merged
                                      ELSE set_item(merged, country, r.val),
                                      i + 1, country_dict, population_dict, species_dict)
             ELSE merge_loop_skip(merged, i + 1, country_dict, population_dict,
                                  species_dict)

\* the loop of lines 27-35 from position i of country_dict on
RECURSIVE merge_loop(_, _, _, _, _)
merge_loop(merged, i, country_dict, population_dict, species_dict) ==
    IF i > Len(country_dict) THEN Ok(merged)
    ELSE LET country == country_dict[i].k
         IN  IF has_key(population_dict, country) /\ has_key(species_dict, country)
             THEN LET r == merged_record(country_dict[i].v, get(population_dict, country),
                                         get(species_dict, country))
                  IN  IF r.err # "none" THEN Raise(r.err)
                      ELSE merge_loop(set_item(merged, country, r.val), i + 1,
                                      country_dict, population_dict, species_dict)
             ELSE merge_loop(merged, i + 1, country_dict, population_dict, species_dict)

merge_data(country_file, population_file, species_file) ==
    LET country_data == read_csv(country_file, TRUE)
        population_data == read_csv(population_file, TRUE)
        species_data == read_csv(species_file, TRUE)
    IN  IF country_data.err # "none" THEN Raise(country_data.err)
        ELSE IF population_data.err # "none" THEN Raise(population_data.err)
        ELSE IF species_data.err # "none" THEN Raise(species_data.err)
        ELSE merge_loop(<<>>, 1, to_dict(country_data.val), to_dict(population_data.val),
                        to_dict(species_data.val))

(***************************************************************************)
(* design_project.py: the statistics                                       *)
(***************************************************************************)
calculate_population_change(data, country) ==
    IF ~has_key(data, country) THEN Raise("KeyError")
    ELSE LET population == get(data, country).population
             area == get(data, country).area
         IN  IF population = <<>> THEN Raise("IndexError")
             ELSE IF Div(population[Len(population)], area).err # "none"
             THEN Raise("ZeroDivisionError")
             ELSE Ok([change |-> Sub(population[Len(population)], population[1]),
                      avg_population |-> mean(population),
                      density |-> Div(population[Len(population)], area).val])

lower(s) == [i \in 1..Len(s) |-> IF s[i] = "S" THEN "s" ELSE IF s[i] = "T" THEN "t" ELSE s[i]]

\* species_loop comparing the sub-regions without regard to case
RECURSIVE species_loop_nocase(_, _, _, _)
species_loop_nocase(result, i, data, sub_region) ==
    IF i > Len(data) THEN Ok(result)
    ELSE LET info == data[i].v
         IN  IF info.sub_region.t = "str" /\ sub_region.t = "str"
                /\ lower(info.sub_region.s) = lower(sub_region.s)
             THEN IF Div(sum(info.species), info.area).err # "none"
                  THEN Raise("ZeroDivisionError")
                  ELSE species_loop_nocase(
                         Append(result, [country |-> data[i].k,
                                         avg_species |-> mean(info.species),
                                         total_species |-> sum(info.species),
                                         species_per_sq_km |->
                                             Div(sum(info.species), info.area).val]),
                         i + 1, data, sub_region)
             ELSE species_loop_nocase(result, i + 1, data, sub_region)

\* the loop of lines 74-84 from position i of data on
RECURSIVE species_loop(_, _, _, _)
species_loop(result, i, data, sub_region) ==
    IF i > Len(data) THEN Ok(result)
    ELSE LET info == data[i].v
         IN  IF PyEq(info.sub_region, sub_region)
             THEN IF Div(sum(info.species), info.area).err # "none"
                  THEN Raise("ZeroDivisionError")
                  ELSE species_loop(
                         Append(result, [country |-> data[i].k,
                                         avg_species |-> mean(info.species),
                                         total_species |-> sum(info.species),
                                         species_per_sq_km |->
                                             Div(sum(info.species), info.area).val]),
                         i + 1, data, sub_region)
             ELSE species_loop(result, i + 1, data, sub_region)

calculate_species_statistics(data, sub_region) == species_loop(<<>>, 1, data, sub_region)

(***************************************************************************)
(* The input files                                                         *)
(***************************************************************************)
MaxRows == 3
MaxYears == 2

\* all sequences over S of length at most n
RECURSIVE SeqsUpTo(_, _)
SeqsUpTo(S, n) ==
    IF n = 0 THEN {<<>>}
    ELSE SeqsUpTo(S, n - 1) \cup {Append(q, x) : q \in SeqsUpTo(S, n - 1), x \in S}

A == <<"A">>
B == <<"B">>

\* rows of the country file: country, region, sub_region, area.  Two
\* countries of one sub-region, a zero area and an area that is no number.
CountryRows ==
    { <<A, <<"R">>, <<"S">>, <<"5", "0">>>>,
      <<B, <<"R">>, <<"S">>, <<"4">>>>,
      <<B, <<"R">>, <<"T">>, <<"0">>>>,
      <<A, <<"R">>, <<"T">>, <<"x">>>> }

\* the population of country k in year i: A grows 100, 150, ..., B shrinks
\* 150, 125, ...
PopText(k, i) == IF k = A THEN NatStr(100 + 50 * (i - 1)) ELSE NatStr(150 - 25 * (i - 1))

\* the species count of country k in year i: A has 3, 4, ..., B has the
\* decimal texts 1.5, 2.5, ...
SpeciesText(k, i) == IF k = A THEN NatStr(2 + i) ELSE NatStr(i) \o <<".", "5">>

\* the text of year i of country k in the population or the species file
SeriesText(kind, k, i) == IF kind = "population" THEN PopText(k, i) ELSE SpeciesText(k, i)

\* the rows a series file may hold for country k.  For A: no year at all,
\* every year, and every year with the last value replaced by a text that is
\* no number.  For B: every year and, in the population file, all but the
\* last year.
SeriesRows(kind, k) ==
    IF k = A
    THEN { <<k>> \o [i \in 1..n |-> SeriesText(kind, k, i)] : n \in {0, MaxYears} }
         \cup { <<k>> \o [i \in 1..MaxYears |->
                            IF i = MaxYears THEN <<"x">> ELSE SeriesText(kind, k, i)] }
    ELSE { <<k>> \o [i \in 1..n |-> SeriesText(kind, k, i)] :
             n \in (IF kind = "population" THEN {MaxYears - 1} ELSE {}) \cup {MaxYears} }

\* a series file holds at most one row per country, A's before B's
SeriesFileRows(kind) ==
    { ra \o rb : ra \in {<<>>} \cup {<<r>> : r \in SeriesRows(kind, A)},
                 rb \in {<<>>} \cup {<<r>> : r \in SeriesRows(kind, B)} }

\* the text of a file: a header line, then one line per row
RECURSIVE RowLines(_)
RowLines(rows) ==
    IF rows = <<>> THEN <<>> ELSE join(rows[1], ",") \o <<"\n">> \o RowLines(Tail(rows))

FileText(rows) == <<"h", "\n">> \o RowLines(rows)

CountryFiles == {FileText(rows) : rows \in SeqsUpTo(CountryRows, MaxRows)}
PopulationFiles == {FileText(rows) : rows \in SeriesFileRows("population")}
SpeciesFiles == {FileText(rows) : rows \in SeriesFileRows("species")} \cup {NoFile}

\* what the user may type at the two prompts
SubRegionInputs == {<<"S">>, <<"s">>, <<"T">>}
CountryInputs == {A, B}

\* the datasets handed to write_csv: at most MaxCsvRows rows of at most
\* MaxCsvCols fields, each a str, an int or a float
MaxCsvRows == 2
MaxCsvCols == 2

CsvValues ==
    { PyStr(<<"a">>), PyStr(<<"2", "0">>), PyStr(<<"-", "1">>),
      PyStr(<<"1", ".", "2", ".", "3">>),
      PyInt(7), PyFloat(-5, 2), PyFloat(1, 100000) }

Datasets == SeqsUpTo(SeqsUpTo(CsvValues, MaxCsvCols) \ {<<>>}, MaxCsvRows)

(***************************************************************************)
(* State                                                                   *)
(***************************************************************************)
VARIABLES
    country_file, population_file, species_file,   \* the texts of the three files
    pc,                      \* the position in main, or in the caller of the library
    data,                    \* merge_data's result
    sub_region, country,     \* the two inputs
    countries_in_sub_region,
    pop_stats, species_stats,
    stdout,                  \* the messages printed so far
    calls,                   \* the calls made so far: [fn, arg, res]
    exc,                     \* the exception that ended the run, or "none"
    csv_data, csv_file, csv_result   \* a dataset, the file it is written to, what is read back

vars == <<country_file, population_file, species_file, pc, data, sub_region, country,
          countries_in_sub_region, pop_stats, species_stats, stdout, calls, exc,
          csv_data, csv_file, csv_result>>

csv == <<csv_data, csv_file, csv_result>>

files == <<country_file, population_file, species_file>>

Call(fn, arg, res) == [fn |-> fn, arg |-> arg, res |-> res]

InitFiles ==
    /\ country_file \in CountryFiles
    /\ population_file \in PopulationFiles
    /\ species_file \in SpeciesFiles
    /\ pc = "merge"
    /\ data = <<>>
    /\ sub_region = PyStr(<<>>)
    /\ country = PyStr(<<>>)
    /\ countries_in_sub_region = <<>>
    /\ pop_stats = NaN
    /\ species_stats = <<>>
    /\ stdout = <<>>
    /\ calls = <<>>
    /\ exc = "none"
    /\ csv_data = <<>>
    /\ csv_file = NoFile
    /\ csv_result = Ok(<<>>)

(***************************************************************************)
(* main                                                                    *)
(***************************************************************************)
\* the prompts and messages of lines 125-136
AskedSubRegion == "Please enter a sub-region: "
AskedCountry == "Please enter a country within the specified sub-region: "
NotFound == "No countries found for the specified sub-region."
Invalid == "Invalid country selection."

\* line 122
Merge ==
    /\ pc = "merge"
    /\ LET r == merge_data(country_file, population_file, species_file)
       IN  IF r.err # "none"
           THEN /\ exc' = r.err
                /\ pc' = "error"
                /\ data' = data
           ELSE /\ data' = r.val
                /\ pc' = "ask_sub_region"
                /\ exc' = exc
    /\ UNCHANGED <<files, sub_region, country, countries_in_sub_region, pop_stats,
                   species_stats, stdout, calls, csv>>

\* [country for country, info in data.items() if info["sub_region"] == sub_region]
RECURSIVE countries_of(_, _)
countries_of(d, s) ==
    IF d = <<>> THEN <<>>
    ELSE (IF PyEq(d[1].v.sub_region, s) THEN <<d[1].k>> ELSE <<>>) \o countries_of(Tail(d), s)

\* lines 125-132: the first prompt, the list, the not-found exit, the listing
\* (', '.join raises on a key that is no str)
EnterSubRegion(s) ==
    /\ pc = "ask_sub_region"
    /\ sub_region' = PyStr(s)
    /\ countries_in_sub_region' = countries_of(data, PyStr(s))
    /\ IF countries_of(data, PyStr(s)) = <<>>
       THEN /\ stdout' = <<AskedSubRegion, NotFound>>
            /\ pc' = "done"
            /\ exc' = exc
       ELSE IF \E i \in 1..Len(countries_of(data, PyStr(s))) :
                    countries_of(data, PyStr(s))[i].t # "str"
       THEN /\ exc' = "TypeError"
            /\ pc' = "error"
            /\ stdout' = <<AskedSubRegion>>
       ELSE /\ stdout' = <<AskedSubRegion, "Countries in">>
            /\ pc' = "ask_country"
            /\ exc' = exc
    /\ UNCHANGED <<files, data, country, pop_stats, species_stats, calls, csv>>

\* country in countries_in_sub_region
contains(xs, x) == \E i \in 1..Len(xs) : PyEq(xs[i], x)

\* EnterCountry testing the entered country against the whole dataset
\* (country not in data) instead of the countries listed
EnterCountry_any(c) ==
    /\ pc = "ask_country"
    /\ country' = PyStr(c)
    /\ IF ~has_key(data, PyStr(c))
       THEN /\ stdout' = stdout \o <<AskedCountry, Invalid>>
            /\ pc' = "done"
       ELSE /\ stdout' = Append(stdout, AskedCountry)
            /\ pc' = "calc_population"
    /\ UNCHANGED <<files, data, sub_region, countries_in_sub_region, pop_stats,
                   species_stats, calls, exc, csv>>

\* lines 133-137: the second prompt and the invalid-selection exit
EnterCountry(c) ==
    /\ pc = "ask_country"
    /\ country' = PyStr(c)
    /\ IF ~contains(countries_in_sub_region, PyStr(c))
       THEN /\ stdout' = stdout \o <<AskedCountry, Invalid>>
            /\ pc' = "done"
       ELSE /\ stdout' = Append(stdout, AskedCountry)
            /\ pc' = "calc_population"
    /\ UNCHANGED <<files, data, sub_region, countries_in_sub_region, pop_stats,
                   species_stats, calls, exc, csv>>

\* line 140
CalcPopulation ==
    /\ pc = "calc_population"
    /\ LET r == calculate_population_change(data, country)
       IN  /\ calls' = Append(calls, Call("calculate_population_change", country, r))
           /\ IF r.err # "none"
              THEN /\ exc' = r.err
                   /\ pc' = "error"
                   /\ pop_stats' = pop_stats
              ELSE /\ pop_stats' = r.val
                   /\ pc' = "calc_species"
                   /\ exc' = exc
    /\ UNCHANGED <<files, data, sub_region, country, countries_in_sub_region,
                   species_stats, stdout, csv>>

\* line 141
CalcSpecies ==
    /\ pc = "calc_species"
    /\ LET r == calculate_species_statistics(data, sub_region)
       IN  /\ calls' = Append(calls, Call("calculate_species_statistics", sub_region, r))
           /\ IF r.err # "none"
              THEN /\ exc' = r.err
                   /\ pc' = "error"
                   /\ species_stats' = species_stats
              ELSE /\ species_stats' = r.val
                   /\ pc' = "display"
                   /\ exc' = exc
    /\ UNCHANGED <<files, data, sub_region, country, countries_in_sub_region,
                   pop_stats, stdout, csv>>

\* line 144 (lines 100-107: the summary and one line per country)
Display ==
    /\ pc = "display"
    /\ calls' = Append(calls, Call("display_output", pop_stats, Ok(NaN)))
    /\ stdout' = stdout \o <<"summary">> \o [i \in 1..Len(species_stats) |-> "stat"]
    /\ pc' = "done"
    /\ UNCHANGED <<files, data, sub_region, country, countries_in_sub_region,
                   pop_stats, species_stats, exc, csv>>

Next ==
    \/ Merge
    \/ \E s \in SubRegionInputs : EnterSubRegion(s)
    \/ \E c \in CountryInputs : EnterCountry(c)
    \/ CalcPopulation
    \/ CalcSpecies
    \/ Display

Spec == InitFiles /\ [][Next]_vars

(***************************************************************************)
(* A caller of the library: merge_data once, then one of the statistics    *)
(* functions on its result with any arguments.  calls holds that call.     *)
(***************************************************************************)
InitApi ==
    /\ country_file \in CountryFiles
    /\ population_file \in PopulationFiles
    /\ species_file \in SpeciesFiles
    /\ pc = "call_merge"
    /\ data = <<>>
    /\ sub_region = PyStr(<<>>)
    /\ country = PyStr(<<>>)
    /\ countries_in_sub_region = <<>>
    /\ pop_stats = NaN
    /\ species_stats = <<>>
    /\ stdout = <<>>
    /\ calls = <<>>
    /\ exc = "none"
    /\ csv_data = <<>>
    /\ csv_file = NoFile
    /\ csv_result = Ok(<<>>)

ApiMerge ==
    /\ pc = "call_merge"
    /\ LET r == merge_data(country_file, population_file, species_file)
       IN  IF r.err # "none"
           THEN /\ exc' = r.err
                /\ pc' = "error"
                /\ data' = data
           ELSE /\ data' = r.val
                /\ pc' = "merged"
                /\ exc' = exc
    /\ UNCHANGED <<files, sub_region, country, countries_in_sub_region, pop_stats,
                   species_stats, stdout, calls, csv>>

ApiPopulationChange(c) ==
    /\ pc = "merged"
    /\ calls' = <<Call("calculate_population_change", PyStr(c),
                       calculate_population_change(data, PyStr(c)))>>
    /\ pc' = "called"
    /\ UNCHANGED <<files, data, sub_region, country, countries_in_sub_region,
                   pop_stats, species_stats, stdout, exc, csv>>

ApiSpeciesStatistics(s) ==
    /\ pc = "merged"
    /\ calls' = <<Call("calculate_species_statistics", PyStr(s),
                       calculate_species_statistics(data, PyStr(s)))>>
    /\ pc' = "called"
    /\ UNCHANGED <<files, data, sub_region, country, countries_in_sub_region,
                   pop_stats, species_stats, stdout, exc, csv>>

NextApi ==
    \/ ApiMerge
    \/ \E c \in CountryInputs : ApiPopulationChange(c)
    \/ \E s \in SubRegionInputs : ApiSpeciesStatistics(s)

SpecApi == InitApi /\ [][NextApi]_vars

(***************************************************************************)
(* A caller of user_csv: one write_csv of a dataset, then one read_csv of  *)
(* the file written.                                                       *)
(***************************************************************************)
\* a file that is there before the write: the one line "id, 1.5 ,<U+00B2>"
ExistingFile == <<"i", "d", ",", " ", "1", ".", "5", " ", ",", "sup2", "\n">>

InitCsv ==
    /\ csv_data \in Datasets
    /\ csv_file \in {NoFile, ExistingFile}
    /\ csv_result = Ok(<<>>)
    /\ pc = "write"
    /\ calls = <<>>
    /\ country_file = NoFile
    /\ population_file = NoFile
    /\ species_file = NoFile
    /\ data = <<>>
    /\ sub_region = PyStr(<<>>)
    /\ country = PyStr(<<>>)
    /\ countries_in_sub_region = <<>>
    /\ pop_stats = NaN
    /\ species_stats = <<>>
    /\ stdout = <<>>
    /\ exc = "none"

WriteCsv(overwrite) ==
    /\ pc = "write"
    /\ csv_file' = write_csv(csv_file, csv_data, overwrite)
    /\ calls' = <<Call("write_csv", overwrite, Ok(NaN))>>
    /\ pc' = "read"
    /\ UNCHANGED <<files, data, sub_region, country, countries_in_sub_region, pop_stats,
                   species_stats, stdout, exc, csv_data, csv_result>>

ReadCsv(include_headers) ==
    /\ pc = "read"
    /\ csv_result' = read_csv(csv_file, include_headers)
    /\ calls' = Append(calls, Call("read_csv", include_headers, Ok(NaN)))
    /\ pc' = "done"
    /\ UNCHANGED <<files, data, sub_region, country, countries_in_sub_region, pop_stats,
                   species_stats, stdout, exc, csv_data, csv_file>>

NextCsv ==
    \/ \E overwrite \in BOOLEAN : WriteCsv(overwrite)
    \/ \E include_headers \in BOOLEAN : ReadCsv(include_headers)

SpecCsv == InitCsv /\ [][NextCsv]_vars

(***************************************************************************)
(* What the claims speak of, read off the files and the merged records     *)
(***************************************************************************)
\* the fields of a line, trimmed
Fields(line) == LET fs == split(line, ",") IN [j \in 1..Len(fs) |-> strip(fs[j])]

\* the fields of the data rows (every line but the first) of a file, trimmed
DataRows(file) ==
    IF file = NoFile THEN <<>>
    ELSE LET lines == readlines(file)
         IN  [i \in 1..(Len(lines) - 1) |-> Fields(lines[i + 1])]

\* the country keys of a file: the first column of its data rows
FirstColumn(file) == LET rows == DataRows(file) IN {PyStr(rows[i][1]) : i \in 1..Len(rows)}

CommonKeys == FirstColumn(country_file) \cap FirstColumn(population_file)
              \cap FirstColumn(species_file)

\* the row of key k that is last in the file
LastRow(file, k) ==
    LET rows == DataRows(file)
    IN  rows[CHOOSE i \in 1..Len(rows) :
                /\ PyStr(rows[i][1]) = k
                /\ \A j \in (i + 1)..Len(rows) : PyStr(rows[j][1]) # k]

\* a text that is a decimal numeral: an optional sign, digits, at most one point
IsDecimalText(t) ==
    LET u == IF t # <<>> /\ t[1] \in {"-", "+"} THEN Tail(t) ELSE t
    IN  /\ \A i \in 1..Len(u) : u[i] \in AsciiDigits \cup {"."}
        /\ Cardinality({i \in 1..Len(u) : u[i] = "."}) <= 1
        /\ \E i \in 1..Len(u) : u[i] \in AsciiDigits

\* a data row with a numeric field that is no number: the area of a country
\* row (column 4), any year of a series row (columns 2 on)
BadCountryRow(row) == Len(row) < 4 \/ ~IsDecimalText(row[4])

BadSeriesRow(row) == \E j \in 2..Len(row) : ~IsDecimalText(row[j])

SomeBadRow ==
    LET c == DataRows(country_file)
        p == DataRows(population_file)
        sp == DataRows(species_file)
    IN  \/ \E i \in 1..Len(c) : BadCountryRow(c[i])
        \/ \E i \in 1..Len(p) : BadSeriesRow(p[i])
        \/ \E i \in 1..Len(sp) : BadSeriesRow(sp[i])

SomeUsedBadRow ==
    \E k \in CommonKeys :
        \/ BadCountryRow(LastRow(country_file, k))
        \/ BadSeriesRow(LastRow(population_file, k))
        \/ BadSeriesRow(LastRow(species_file, k))

\* merge_data returned and nothing has raised since
Returned == pc \notin {"merge", "call_merge", "error"}

\* merge_data returned or raised
MergeEnded == pc \notin {"merge", "call_merge"}

\* the positions in data of the records of sub-region s
Matching(s) == {i \in 1..Len(data) : data[i].v.sub_region = s}

\* the value of the text t as n/d
DecimalOf(t) == float_str(t).val

(***************************************************************************)
(* C1, C7, C9: merge_data                                                  *)
(***************************************************************************)
\* C1: whenever merge_data returns, the keys of the merged dataset are exactly
\* the country keys that occur in the first column of a data row of all
\* three files, each once.
C1_KeysAreIntersection ==
    Returned =>
        /\ {data[i].k : i \in 1..Len(data)} = CommonKeys
        /\ Cardinality(CommonKeys) = Len(data)

\* merge_data returned a non-empty dataset and left out a country of the
\* country file and a country of the population file
C1_Witness ==
    /\ Returned
    /\ data # <<>>
    /\ \E k \in FirstColumn(country_file) : \A i \in 1..Len(data) : data[i].k # k
    /\ \E k \in FirstColumn(population_file) : \A i \in 1..Len(data) : data[i].k # k

\* C7: every record of a dataset returned by merge_data has a non-empty
\* population series and a non-empty species series of the same length, and
\* that length is the same for all countries.
C7_SeriesAligned ==
    Returned =>
        \A i \in 1..Len(data) :
            /\ data[i].v.population # <<>>
            /\ data[i].v.species # <<>>
            /\ Len(data[i].v.population) = Len(data[i].v.species)
            /\ \A j \in 1..Len(data) :
                   Len(data[j].v.population) = Len(data[i].v.population)

\* C9 as stated: if any area, population or species field of a data row of
\* the input files is no number, merge_data raises and returns no dataset.
C9_AnyBadFieldRaises == (MergeEnded /\ SomeBadRow) => (pc = "error" /\ exc # "none")

\* C9 as amended: if a field is no number in a row that merge_data builds a
\* record from (the last row of a country key that occurs in all three
\* files), merge_data raises and returns no dataset.
C9_UsedBadFieldRaises == (MergeEnded /\ SomeUsedBadRow) => (pc = "error" /\ exc # "none")

\* merge_data raised ValueError on a row it builds a record from
C9_Witness == pc = "error" /\ exc = "ValueError" /\ SomeUsedBadRow

(***************************************************************************)
(* C2 - C5: the statistics                                                 *)
(***************************************************************************)
RECURSIVE Total(_)
Total(xs) == IF xs = <<>> THEN 0 ELSE xs[1].n + Total(Tail(xs))

\* q is a number and q * b = a, for a number q and integers a, b
IsQuotient(q, a, b) == IsNum(q) /\ q.n * b = a * q.d

\* C2: for every country key of the merged dataset,
\* calculate_population_change returns change = last - first of the
\* population series, avg_population = its sum / its length and
\* density = last / area.  (All population values of the model are whole
\* numbers, so .n is the value.)
C2_PopulationStats ==
    \A c \in 1..Len(calls) :
        (calls[c].fn = "calculate_population_change" /\ has_key(data, calls[c].arg)) =>
            LET r == get(data, calls[c].arg)
                p == r.population
                res == calls[c].res
            IN  /\ res.err = "none"
                /\ res.val.change = PyFloat(p[Len(p)].n - p[1].n, 1)
                /\ IsQuotient(res.val.avg_population, Total(p), Len(p))
                /\ IsNum(res.val.density)
                /\ res.val.density.n * r.area.n = p[Len(p)].n * r.area.d * res.val.density.d

\* C3: every entry that calculate_species_statistics returns has
\* total_species = the sum of the country's species series,
\* avg_species = total_species / the length of the series and
\* species_per_sq_km = total_species / area.
C3_SpeciesFigures ==
    \A c \in 1..Len(calls) :
        (calls[c].fn = "calculate_species_statistics" /\ calls[c].res.err = "none") =>
            \A e \in 1..Len(calls[c].res.val) :
                LET ent == calls[c].res.val[e]
                    r == get(data, ent.country)
                IN  /\ ent.total_species = PyInt(Total(r.species))
                    /\ IsQuotient(ent.avg_species, Total(r.species), Len(r.species))
                    /\ IsNum(ent.species_per_sq_km)
                    /\ ent.species_per_sq_km.n * r.area.n
                         = Total(r.species) * r.area.d * ent.species_per_sq_km.d

\* the country keys of the country file in the order of their first rows
RECURSIVE FirstAppearances(_, _)
FirstAppearances(rows, seen) ==
    IF rows = <<>> THEN <<>>
    ELSE IF PyStr(rows[1][1]) \in seen THEN FirstAppearances(Tail(rows), seen)
    ELSE <<PyStr(rows[1][1])>> \o FirstAppearances(Tail(rows), seen \cup {PyStr(rows[1][1])})

\* the members of ks, in order, that are keys of records of sub-region s
RECURSIVE Selected(_, _)
Selected(ks, s) ==
    IF ks = <<>> THEN <<>>
    ELSE (IF \E i \in Matching(s) : data[i].k = ks[1] THEN <<ks[1]>> ELSE <<>>)
         \o Selected(Tail(ks), s)

\* C4: calculate_species_statistics(data, s) returns one entry for each record
\* whose sub_region is the string s and none for any other record, in the
\* order in which the countries first appear in the country file.
C4_SpeciesSelection ==
    \A c \in 1..Len(calls) :
        (calls[c].fn = "calculate_species_statistics") =>
            /\ calls[c].res.err = "none"
            /\ [e \in 1..Len(calls[c].res.val) |-> calls[c].res.val[e].country]
                 = Selected(FirstAppearances(DataRows(country_file), {}), calls[c].arg)

\* C5: on any merged dataset, the empty one included, a sub_region that no
\* record has makes calculate_species_statistics return the empty list, and
\* raise nothing.
C5_NoMatchIsEmpty ==
    \A c \in 1..Len(calls) :
        (calls[c].fn = "calculate_species_statistics" /\ Matching(calls[c].arg) = {}) =>
            calls[c].res = Ok(<<>>)

\* calculate_species_statistics was called on a dataset of two countries with
\* a sub_region that differs from theirs in case only, and returned []
C5_Witness ==
    /\ Len(data) = 2
    /\ calls # <<>>
    /\ calls[1].fn = "calculate_species_statistics"
    /\ calls[1].arg = PyStr(<<"s">>)
    /\ \A i \in 1..Len(data) : data[i].v.sub_region = PyStr(<<"S">>)
    /\ calls[1].res = Ok(<<>>)

(***************************************************************************)
(* C10: main                                                               *)
(***************************************************************************)
Printed(m) == \E i \in 1..Len(stdout) : stdout[i] = m

\* the positions in calls of the calls of fn
CallsOf(fn) == {j \in 1..Len(calls) : calls[j].fn = fn}

\* C10: once a sub-region is entered that no record has, main has printed the
\* not-found message and returned, with no prompt for a country and no
\* statistics call; once a country is entered that is not a country of the
\* entered sub-region, main has printed the invalid-selection message and
\* returned with no statistics call; calculate_population_change is called
\* only with a key of the dataset whose record has the entered sub-region,
\* and before calculate_species_statistics and display_output.
C10_MainGuards ==
    /\ (Printed(AskedSubRegion) /\ Matching(sub_region) = {}) =>
           /\ pc = "done"
           /\ stdout = <<AskedSubRegion, NotFound>>
           /\ calls = <<>>
    /\ (Printed(AskedCountry) /\ ~\E i \in Matching(sub_region) : data[i].k = country) =>
           /\ pc = "done"
           /\ stdout[Len(stdout)] = Invalid
           /\ calls = <<>>
    /\ \A j \in CallsOf("calculate_population_change") :
           \E i \in Matching(sub_region) : data[i].k = calls[j].arg
    /\ \A j \in CallsOf("calculate_species_statistics") \cup CallsOf("display_output") :
           \E i \in CallsOf("calculate_population_change") : i < j
    /\ (Printed(NotFound) \/ Printed(Invalid)) => (pc = "done" /\ calls = <<>>)

\* main listed two countries, took one of them and ran to the summary
C10_Witness ==
    /\ pc = "done"
    /\ Len(countries_in_sub_region) = 2
    /\ Len(calls) = 3
    /\ calls[1].fn = "calculate_population_change"
    /\ calls[3].fn = "display_output"

(***************************************************************************)
(* C6, C8: user_csv                                                        *)
(***************************************************************************)
\* a text that is a non-negative decimal: digits with at most one point
IsNonNegDecimal(t) ==
    /\ \A i \in 1..Len(t) : t[i] \in AsciiDigits \cup {"."}
    /\ Cardinality({i \in 1..Len(t) : t[i] = "."}) <= 1
    /\ \E i \in 1..Len(t) : t[i] \in AsciiDigits

\* C6: a dataset written by write_csv (overwriting) and read back by read_csv
\* with the headers included comes back with the same rows: every number as
\* an equal number, every str as the same str.
C6_RoundTrip ==
    (pc = "done" /\ calls[1].arg = TRUE /\ calls[2].arg = TRUE) =>
        /\ csv_result.err = "none"
        /\ Len(csv_result.val) = Len(csv_data)
        /\ \A i \in 1..Len(csv_data) :
               /\ Len(csv_result.val[i]) = Len(csv_data[i])
               /\ \A j \in 1..Len(csv_data[i]) :
                      IF IsNum(csv_data[i][j])
                      THEN /\ IsNum(csv_result.val[i][j])
                           /\ csv_result.val[i][j].n * csv_data[i][j].d
                                = csv_data[i][j].n * csv_result.val[i][j].d
                      ELSE csv_result.val[i][j] = csv_data[i][j]

\* the lines of the file that read_csv returns rows for
ReadLines == IF calls[2].arg \/ readlines(csv_file) = <<>>
             THEN readlines(csv_file) ELSE Tail(readlines(csv_file))

\* C8: read_csv never fails on a field; a field that, trimmed, is a
\* non-negative decimal comes back as that number, any other field comes
\* back as the trimmed text.
C8_FieldClassification ==
    (pc = "done") =>
        /\ csv_result.err = "none"
        /\ Len(csv_result.val) = Len(ReadLines)
        /\ \A i \in 1..Len(ReadLines) :
               LET fs == split(ReadLines[i], ",")
               IN  /\ Len(csv_result.val[i]) = Len(fs)
                   /\ \A j \in 1..Len(fs) :
                          IF IsNonNegDecimal(strip(fs[j]))
                          THEN /\ csv_result.val[i][j].t = "float"
                               /\ csv_result.val[i][j] = DecimalOf(strip(fs[j]))
                          ELSE csv_result.val[i][j] = PyStr(strip(fs[j]))

(***************************************************************************)
(* What does hold where C2, C3, C4 and C8 fail                             *)
(***************************************************************************)
\* beside C2: a call of calculate_population_change that returns, returns the
\* claimed figures; it raises exactly on an empty series or a zero area
PopulationStatsWhenReturned ==
    \A c \in 1..Len(calls) :
        (calls[c].fn = "calculate_population_change" /\ has_key(data, calls[c].arg)) =>
            LET r == get(data, calls[c].arg)
                p == r.population
                res == calls[c].res
            IN  IF p = <<>> THEN res.err = "IndexError"
                ELSE IF r.area.n = 0 THEN res.err = "ZeroDivisionError"
                ELSE /\ res.err = "none"
                     /\ res.val.change = PyFloat(p[Len(p)].n - p[1].n, 1)
                     /\ IsQuotient(res.val.avg_population, Total(p), Len(p))
                     /\ res.val.density.n * r.area.n
                          = p[Len(p)].n * r.area.d * res.val.density.d

\* beside C3: the figures of an entry are as claimed unless the species
\* series is empty, and then avg_species is nan
SpeciesFiguresWhenNonEmpty ==
    \A c \in 1..Len(calls) :
        (calls[c].fn = "calculate_species_statistics" /\ calls[c].res.err = "none") =>
            \A e \in 1..Len(calls[c].res.val) :
                LET ent == calls[c].res.val[e]
                    r == get(data, ent.country)
                IN  /\ ent.total_species = PyInt(Total(r.species))
                    /\ IF r.species = <<>> THEN ent.avg_species = NaN
                       ELSE IsQuotient(ent.avg_species, Total(r.species), Len(r.species))
                    /\ ent.species_per_sq_km.n * r.area.n
                         = Total(r.species) * r.area.d * ent.species_per_sq_km.d

\* beside C4: a call of calculate_species_statistics that returns, returns the
\* claimed entries in the claimed order; it raises exactly when a record of
\* the sub-region has a zero area
SpeciesSelectionWhenReturned ==
    \A c \in 1..Len(calls) :
        (calls[c].fn = "calculate_species_statistics") =>
            IF \E i \in Matching(calls[c].arg) : data[i].v.area.n = 0
            THEN calls[c].res.err = "ZeroDivisionError"
            ELSE /\ calls[c].res.err = "none"
                 /\ [e \in 1..Len(calls[c].res.val) |-> calls[c].res.val[e].country]
                      = Selected(FirstAppearances(DataRows(country_file), {}), calls[c].arg)

\* beside C8: read_csv fails exactly when a field is made of digit characters
\* (and at most one point) that are not all ASCII digits
ReadFailsOnlyOnSuperscripts ==
    (pc = "done") =>
        (csv_result.err # "none" <=>
            \E i \in 1..Len(readlines(csv_file)) :
                \E j \in 1..Len(split(readlines(csv_file)[i], ",")) :
                    LET f == strip(split(readlines(csv_file)[i], ",")[j])
                    IN  /\ \E k \in 1..Len(f) : f[k] = "sup2"
                        /\ \A k \in 1..Len(f) : f[k] \in AsciiDigits \cup {".", "sup2"}
                        /\ Cardinality({k \in 1..Len(f) : f[k] = "."}) <= 1)

=============================================================================
